---- MODULE Spec2Model ----
(***************************************************************************)
(* Model of the image viewer in src/src/main.rs: the directory scan and    *)
(* starting-file resolution done by main, the ImageViewer navigator        *)
(* (load_image, filename), load_image_and_filename, and the window         *)
(* callback that pushes the result into the MainWindow properties.         *)
(*                                                                         *)
(* Strings are sequences of one-character strings, so that                 *)
(* Path::extension and eq_ignore_ascii_case are computed, not assumed.     *)
(* A path is the sequence of its components (std::path::Components).       *)
(* Option values are sequences of length at most one.                      *)
(***************************************************************************)
EXTENDS Integers, Sequences, FiniteSets, TLC

VARIABLES
    pc,            \* position of main: "start", "constructed", "running", "panicked"
    arg,           \* Option<String>: the first command-line argument, as a path
    fs,            \* the file system: absolute directory path -> listing of entry names
    images,        \* ImageViewer.images
    current_index, \* ImageViewer.current_index (0-based, as in the source)
    borrow,        \* borrow state of the RefCell<ImageViewer>: 0 free, -1 mutably borrowed
    win_image,     \* MainWindow property `image`
    win_filename,  \* MainWindow property `filename`
    hist,          \* history: the last two load_image commands, oldest first
    nextRun,       \* history: number of consecutive "next" commands just issued
    runStart       \* history: current_index before the first command of that run

vars == <<pc, arg, fs, images, current_index, borrow, win_image, win_filename,
          hist, nextRun, runStart>>

(***************************************************************************)
(* Bounds                                                                  *)
(***************************************************************************)
MaxEntries == 3
MaxScanEntries == 4

(***************************************************************************)
(* Option                                                                  *)
(***************************************************************************)
None == <<>>
Some(x) == <<x>>
IsSome(o) == o # <<>>
Unwrap(o) == o[1]

Front(s) == SubSeq(s, 1, Len(s) - 1)
Last(s) == s[Len(s)]

(***************************************************************************)
(* Strings                                                                 *)
(***************************************************************************)
Upper == <<"A","B","C","D","E","F","G","H","I","J","K","L","M",
           "N","O","P","Q","R","S","T","U","V","W","X","Y","Z">>
Lower == <<"a","b","c","d","e","f","g","h","i","j","k","l","m",
           "n","o","p","q","r","s","t","u","v","w","x","y","z">>

to_ascii_lowercase(c) ==
    IF \E i \in 1..Len(Upper) : Upper[i] = c
    THEN Lower[CHOOSE i \in 1..Len(Upper) : Upper[i] = c]
    ELSE c

eq_ignore_ascii_case(a, b) ==
    /\ Len(a) = Len(b)
    /\ \A i \in 1..Len(a) : to_ascii_lowercase(a[i]) = to_ascii_lowercase(b[i])

PNG == <<"p","n","g">>
JPG == <<"j","p","g">>
JPEG == <<"j","p","e","g">>
EMPTY_LABEL == <<"e","m","p","t","y">>

(***************************************************************************)
(* Paths                                                                   *)
(***************************************************************************)
ROOT == <<"/">>          \* Component::RootDir
CUR == <<".">>           \* Component::CurDir
PARENT == <<".",".">>    \* Component::ParentDir

IsNormal(comp) == comp # ROOT /\ comp # CUR /\ comp # PARENT

\* Path::file_name
file_name(path) ==
    IF path # <<>> /\ IsNormal(Last(path)) THEN Some(Last(path)) ELSE None

\* Path::parent
parent(path) ==
    IF path = <<>> THEN None
    ELSE IF Last(path) = ROOT THEN None
    ELSE Some(Front(path))

\* Index of the last "." of a name, 0 when there is none.
LastDot(name) ==
    IF \E i \in 1..Len(name) : name[i] = "."
    THEN CHOOSE i \in 1..Len(name) :
            /\ name[i] = "."
            /\ \A j \in (i+1)..Len(name) : name[j] # "."
    ELSE 0

\* Path::extension
extension(path) ==
    IF ~IsSome(file_name(path)) THEN None
    ELSE LET name == Unwrap(file_name(path))
             d == LastDot(name)
         IN  IF d = 0 THEN None
             ELSE IF d = 1 THEN None
             ELSE Some(SubSeq(name, d + 1, Len(name)))

(***************************************************************************)
(* File system                                                             *)
(***************************************************************************)
W == <<"w">>
DIR == <<"d","i","r">>
CWD == <<ROOT, W>>       \* the process's working directory, /w

\* The absolute path the operating system resolves `path` to.
Resolve(path) ==
    LET abs == IF path # <<>> /\ path[1] = ROOT THEN path ELSE CWD \o path
    IN  SelectSeq(abs, LAMBDA c : c # CUR)

\* Path::is_dir (stat of the empty path fails)
is_dir(f, path) == path # <<>> /\ Resolve(path) \in DOMAIN f

\* fs::read_dir: the entries' paths (DirEntry::path is dir.join(name)),
\* or an error for the empty path and for what is not a directory.
read_dir(f, dir) ==
    IF dir = <<>> \/ Resolve(dir) \notin DOMAIN f
    THEN [err |-> TRUE, entries |-> <<>>]
    ELSE LET names == f[Resolve(dir)]
         IN  [err |-> FALSE,
              entries |-> [i \in 1..Len(names) |-> dir \o <<names[i]>>]]

(***************************************************************************)
(* main: directory scan and starting-file resolution                       *)
(***************************************************************************)
\* std::env::args().skip(1).next().unwrap_or(".")
arg_path(a) == IF IsSome(a) THEN Unwrap(a) ELSE <<CUR>>

\* (image_path, image_dir)
split_path(f, path) ==
    IF is_dir(f, path)
    THEN [image_path |-> None, image_dir |-> path]
    ELSE LET dir == IF IsSome(parent(path)) THEN Unwrap(parent(path)) ELSE <<CUR>>
         IN  [image_path |-> Some(path), image_dir |-> dir]

\* Variant of is_image comparing the extension case-sensitively.
is_image_case_sensitive(path) ==
    /\ IsSome(extension(path))
    /\ Unwrap(extension(path)) \in {PNG, JPG, JPEG}

\* the filter_map closure's test
is_image(path) ==
    /\ IsSome(extension(path))
    /\ \/ eq_ignore_ascii_case(Unwrap(extension(path)), PNG)
       \/ eq_ignore_ascii_case(Unwrap(extension(path)), JPG)
       \/ eq_ignore_ascii_case(Unwrap(extension(path)), JPEG)

\* read_dir(..).filter_map(..).collect()
scan_images(entries) == SelectSeq(entries, is_image)

\* Iterator::position, 0-based
position(imgs, p) ==
    IF \E i \in 1..Len(imgs) : imgs[i] = p
    THEN Some((CHOOSE i \in 1..Len(imgs) :
                  /\ imgs[i] = p
                  /\ \A j \in 1..(i-1) : imgs[j] # p) - 1)
    ELSE None

image_index(imgs, image_path) ==
    IF IsSome(image_path)
    THEN LET pos == position(imgs, Unwrap(image_path))
         IN  IF IsSome(pos) THEN Unwrap(pos) ELSE 0
    ELSE 0

(***************************************************************************)
(* ImageViewer                                                             *)
(***************************************************************************)
new(imgs, idx) == [images |-> imgs, current_index |-> idx]

\* Variant of step_index: "next" without the modulo.
step_index_no_wrap(len, idx, direction) ==
    IF direction = "previous"
    THEN IF idx = 0 THEN len - 1 ELSE idx - 1
    ELSE IF direction = "next"
    THEN idx + 1
    ELSE idx

\* Variant of step_index: "next" stops at the last entry.
step_index_clamp_next(len, idx, direction) ==
    IF direction = "previous"
    THEN IF idx = 0 THEN len - 1 ELSE idx - 1
    ELSE IF direction = "next"
    THEN IF idx + 1 < len THEN idx + 1 ELSE idx
    ELSE idx

\* Variant of step_index: "previous" stops at the first entry.
step_index_clamp_prev(len, idx, direction) ==
    IF direction = "previous"
    THEN IF idx = 0 THEN 0 ELSE idx - 1
    ELSE IF direction = "next"
    THEN (idx + 1) % len
    ELSE idx

\* Variant of step_index: the "next" arm is missing.
step_index_ignore_next(len, idx, direction) ==
    IF direction = "previous"
    THEN IF idx = 0 THEN len - 1 ELSE idx - 1
    ELSE idx

\* Variant of step_index: every string but "previous" advances.
step_index_default_next(len, idx, direction) ==
    IF direction = "previous"
    THEN IF idx = 0 THEN len - 1 ELSE idx - 1
    ELSE (idx + 1) % len

\* the match on direction
step_index(len, idx, direction) ==
    IF direction = "previous"
    THEN IF idx = 0 THEN len - 1 ELSE idx - 1
    ELSE IF direction = "next"
    THEN (idx + 1) % len
    ELSE idx

NoImage == [decoded |-> FALSE, src |-> <<>>]
\* the slint::Image built from the decode of the file at `path`
Decoded(path) == [decoded |-> TRUE, src |-> path]

\* Variant of load_image without the is_empty early return: on an empty
\* set the index arithmetic or the indexing panics.
load_image_unguarded(v, direction, decode_ok) ==
    IF v.images = <<>>
    THEN [viewer |-> v, image |-> None, tried |-> None, panicked |-> TRUE]
    ELSE LET idx == step_index(Len(v.images), v.current_index, direction)
             v2 == [v EXCEPT !.current_index = idx]
         IN  [viewer |-> v2,
              image |-> IF decode_ok THEN Some(Decoded(v.images[idx + 1])) ELSE None,
              tried |-> Some(idx),
              panicked |-> FALSE]

\* Variant of load_image that restores the index when the decode fails.
load_image_rollback(v, direction, decode_ok) ==
    IF v.images = <<>>
    THEN [viewer |-> v, image |-> None, tried |-> None, panicked |-> FALSE]
    ELSE LET idx == step_index(Len(v.images), v.current_index, direction)
             v2 == [v EXCEPT !.current_index = idx]
         IN  [viewer |-> IF decode_ok THEN v2 ELSE v,
              image |-> IF decode_ok THEN Some(Decoded(v.images[idx + 1])) ELSE None,
              tried |-> Some(idx),
              panicked |-> FALSE]

\* ImageViewer::load_image; decode_ok is the outcome of image::open.
\* tried is the index handed to the decoder, panicked the out-of-bounds
\* panic of images[current_index].
load_image(v, direction, decode_ok) ==
    IF v.images = <<>>
    THEN [viewer |-> v, image |-> None, tried |-> None, panicked |-> FALSE]
    ELSE LET idx == step_index(Len(v.images), v.current_index, direction)
             v2 == [v EXCEPT !.current_index = idx]
         IN  IF idx < 0 \/ idx >= Len(v.images)
             THEN [viewer |-> v2, image |-> None, tried |-> None, panicked |-> TRUE]
             ELSE [viewer |-> v2,
                   image |-> IF decode_ok THEN Some(Decoded(v.images[idx + 1])) ELSE None,
                   tried |-> Some(idx),
                   panicked |-> FALSE]

\* ImageViewer::filename
filename(v) ==
    IF v.current_index >= 0 /\ v.current_index < Len(v.images)
       /\ IsSome(file_name(v.images[v.current_index + 1]))
    THEN Unwrap(file_name(v.images[v.current_index + 1]))
    ELSE <<>>

\* Variant of load_image_and_filename reading the file name before the load.
load_image_and_filename_stale(v, b, direction, decode_ok) ==
    IF b # 0
    THEN [viewer |-> v, result |-> None, tried |-> None, panicked |-> FALSE]
    ELSE LET r == load_image(v, direction, decode_ok)
         IN  [viewer |-> r.viewer,
              result |-> IF IsSome(r.image)
                         THEN Some([image |-> Unwrap(r.image), filename |-> filename(v)])
                         ELSE None,
              tried |-> r.tried,
              panicked |-> r.panicked]

\* load_image_and_filename; b is the RefCell's borrow state on entry.
load_image_and_filename(v, b, direction, decode_ok) ==
    IF b # 0
    THEN [viewer |-> v, result |-> None, tried |-> None, panicked |-> FALSE]
    ELSE LET r == load_image(v, direction, decode_ok)
         IN  [viewer |-> r.viewer,
              result |-> IF IsSome(r.image)
                         THEN Some([image |-> Unwrap(r.image), filename |-> filename(r.viewer)])
                         ELSE None,
              tried |-> r.tried,
              panicked |-> r.panicked]

\* body of the on_load_image closure (and of the initial load in main)
show(win, result) ==
    IF IsSome(result)
    THEN [image |-> Unwrap(result).image, filename |-> Unwrap(result).filename]
    ELSE [image |-> win.image, filename |-> EMPTY_LABEL]

(***************************************************************************)
(* Inputs: file names, directory listings, command-line arguments          *)
(***************************************************************************)
A_PNG == <<"a",".","p","n","g">>
B_TXT == <<"b",".","t","x","t">>
C_JPG == <<"c",".","J","P","G">>
D_JPEG == <<"d",".","j","p","e","g">>
E_NOEXT == <<"e">>
DOT_PNG == <<".","p","n","g">>
F_BAK == <<"f",".","j","p","g",".","b","a","k">>
G_JPEG == <<"g",".","J","p","e","G">>

Names == {A_PNG, B_TXT, C_JPG, D_JPEG}
ScanNames == Names \cup {E_NOEXT, DOT_PNG, F_BAK, G_JPEG}

\* Directory listings: sequences of distinct names, in any order.
Listings(names, max) ==
    UNION {{l \in [1..n -> names] : \A i, j \in 1..n : i # j => l[i] # l[j]} : n \in 0..max}

CwdListing == <<DIR, C_JPG, B_TXT, A_PNG>>

ArgNames == {A_PNG, B_TXT, C_JPG}
Args ==
    {None, Some(<<>>), Some(<<DIR>>)}
    \cup {Some(<<DIR, n>>) : n \in ArgNames}
    \cup {Some(<<ROOT, W, DIR, n>>) : n \in ArgNames}
    \cup {Some(<<n>>) : n \in ArgNames}

Directions == {"previous", "next", "", "reload"}

(***************************************************************************)
(* State machine                                                           *)
(***************************************************************************)
InitWith(names, max) ==
    /\ pc = "start"
    /\ arg \in Args
    /\ \E l \in Listings(names, max) :
          fs = (<<ROOT>> :> <<W>>) @@ (CWD :> CwdListing) @@ ((CWD \o <<DIR>>) :> l)
    /\ images = <<>>
    /\ current_index = 0
    /\ borrow = 0
    /\ win_image = NoImage
    /\ win_filename = <<>>
    /\ hist = <<>>
    /\ nextRun = 0
    /\ runStart = 0

Init == InitWith(Names, MaxEntries)
ScanInit == InitWith(ScanNames, MaxScanEntries)

\* main up to ImageViewer::new and the registration of the callback
Startup ==
    /\ pc = "start"
    /\ LET sp == split_path(fs, arg_path(arg))
           rd == read_dir(fs, sp.image_dir)
       IN  IF rd.err
           THEN /\ pc' = "panicked"
                /\ UNCHANGED <<images, current_index>>
           ELSE LET imgs == scan_images(rd.entries)
                    v == new(imgs, image_index(imgs, sp.image_path))
                IN  /\ pc' = "constructed"
                    /\ images' = v.images
                    /\ current_index' = v.current_index
    /\ UNCHANGED <<arg, fs, borrow, win_image, win_filename, hist, nextRun, runStart>>

\* One load_image command and the window update that follows it.
Command(direction, decode_ok) ==
    LET v == [images |-> images, current_index |-> current_index]
        r == load_image_and_filename(v, borrow, direction, decode_ok)
        w == show([image |-> win_image, filename |-> win_filename], r.result)
        entry == [dir |-> direction, pre |-> current_index,
                  ok |-> IsSome(r.result), tried |-> r.tried]
    IN  /\ images' = r.viewer.images
        /\ current_index' = r.viewer.current_index
        /\ IF r.panicked
           THEN /\ pc' = "panicked"
                /\ UNCHANGED <<win_image, win_filename>>
           ELSE /\ pc' = "running"
                /\ win_image' = w.image
                /\ win_filename' = w.filename
        /\ hist' = IF Len(hist) < 2 THEN Append(hist, entry) ELSE <<hist[2], entry>>
        /\ IF direction = "next" /\ images # <<>>
           THEN IF nextRun = 0 \/ nextRun >= Len(images)
                THEN nextRun' = 1 /\ runStart' = current_index
                ELSE nextRun' = nextRun + 1 /\ UNCHANGED runStart
           ELSE nextRun' = 0 /\ runStart' = 0
        /\ UNCHANGED <<arg, fs, borrow>>

\* the initial load in main, before main_window.run()
InitialLoad ==
    /\ pc = "constructed"
    /\ \E decode_ok \in BOOLEAN : Command("", decode_ok)

\* the load_image callback, invoked by the event loop
OnLoadImage ==
    /\ pc = "running"
    /\ \E direction \in Directions, decode_ok \in BOOLEAN : Command(direction, decode_ok)

Next == Startup \/ InitialLoad \/ OnLoadImage
Spec == Init /\ [][Next]_vars

ScanNext == Startup \/ InitialLoad
ScanSpec == ScanInit /\ [][ScanNext]_vars

(***************************************************************************)
(* Properties                                                              *)
(***************************************************************************)
Constructed == pc \in {"constructed", "running"}
LastCmd == hist[Len(hist)]
Navigation == {"previous", "next"}

\* C1: whenever images is non-empty, current_index is a valid index into it,
\* after construction by main and after any sequence of commands and decode
\* outcomes.
IndexValid ==
    images # <<>> => (current_index >= 0 /\ current_index < Len(images))

\* C1 witness: a "next" with a failed decode has just wrapped the index from
\* the last entry to 0 in a set of at least two images.
IndexValidWitness ==
    /\ pc = "running" /\ Len(images) >= 2 /\ hist # <<>>
    /\ LastCmd.dir = "next" /\ ~LastCmd.ok
    /\ LastCmd.pre = Len(images) - 1 /\ current_index = 0

\* C2: after exactly N = len(images) consecutive "next" commands the index is
\* back at the value it had before the first of them, whatever the decodes did.
WraparoundClosure ==
    (images # <<>> /\ nextRun = Len(images)) => current_index = runStart

\* C2 witness: three "next" in a row on three images, started in the middle,
\* the last decode failing.
WraparoundWitness ==
    /\ pc = "running" /\ Len(images) = 3 /\ nextRun = 3 /\ runStart = 1
    /\ current_index = 1 /\ ~LastCmd.ok

\* C3: "next" then "previous", and "previous" then "next", leave the index
\* where it was before the pair, at every index and for every decode outcome.
PreviousInvertsNext ==
    (images # <<>> /\ Len(hist) = 2
        /\ {hist[1].dir, hist[2].dir} = Navigation)
    => current_index = hist[1].pre

\* C3 witness: "previous" at index 0 (wrapping to N-1, decode failed) followed
\* by "next", on at least two images.
PreviousInvertsNextWitness ==
    /\ pc = "running" /\ Len(images) >= 2 /\ Len(hist) = 2
    /\ hist[1].dir = "previous" /\ hist[1].pre = 0 /\ ~hist[1].ok
    /\ hist[2].dir = "next" /\ hist[2].pre = Len(images) - 1
    /\ current_index = 0

\* The last two commands: a load that ended in a failed decode, then "next".
FailedThenNext ==
    /\ images # <<>> /\ Len(hist) = 2
    /\ IsSome(hist[1].tried) /\ ~hist[1].ok
    /\ hist[2].dir = "next"

\* C4 as claimed: for every N >= 1, the decode attempted by a "next" that
\* immediately follows a failed decode of images[i] is of another entry.
NextSkipsFailedFile ==
    FailedThenNext =>
        /\ IsSome(hist[2].tried)
        /\ images[Unwrap(hist[2].tried) + 1] # images[Unwrap(hist[1].tried) + 1]

\* C4 amended: the same for every image set of at least two entries; with a
\* single entry "next" wraps onto the failed file itself.
NextSkipsFailedFileMulti ==
    (FailedThenNext /\ Len(images) >= 2) =>
        /\ IsSome(hist[2].tried)
        /\ images[Unwrap(hist[2].tried) + 1] # images[Unwrap(hist[1].tried) + 1]

\* C4 witness: the decode of the last of at least two entries failed and the
\* following "next" tried entry 0.
NextSkipsFailedFileWitness ==
    /\ pc = "running" /\ FailedThenNext /\ Len(images) >= 2
    /\ hist[1].tried = Some(Len(images) - 1) /\ hist[2].tried = Some(0)

\* The image names of a listing as the specification describes them: a
\* non-empty stem, a last dot, and then png, jpg or jpeg in any letter case.
HasImageExtension(name) ==
    \E k \in 2..Len(name) :
        /\ name[k] = "."
        /\ \A j \in (k+1)..Len(name) : name[j] # "."
        /\ [i \in 1..(Len(name) - k) |-> to_ascii_lowercase(name[k + i])] \in {PNG, JPG, JPEG}

\* The directory a file argument lives in.
FileParentDir(path) == Front(Resolve(path))

\* C5 as claimed: for every argument that is not a directory, startup builds
\* the image set from the image entries of the file's parent directory and
\* sets current_index to the file's position in it, or 0 when it is absent.
StartingFileResolution ==
    (pc # "start" /\ IsSome(arg) /\ Unwrap(arg) # <<>> /\ ~is_dir(fs, Unwrap(arg)))
    => /\ pc # "panicked"
       /\ [i \in 1..Len(images) |-> Last(images[i])]
            = SelectSeq(fs[FileParentDir(Unwrap(arg))], HasImageExtension)
       /\ \A i \in 1..Len(images) : Front(Resolve(images[i])) = FileParentDir(Unwrap(arg))
       /\ IF \E i \in 1..Len(images) : Resolve(images[i]) = Resolve(Unwrap(arg))
          THEN Resolve(images[current_index + 1]) = Resolve(Unwrap(arg))
          ELSE current_index = 0

\* C6: on an empty image set every command returns no image without a decode
\* attempt, keeps images empty and current_index unchanged, and sets the
\* label to "empty".
EmptyAbsorbing ==
    [][(Constructed /\ images = <<>> /\ hist' # <<>>)
        => /\ pc' = "running"
           /\ images' = <<>>
           /\ current_index' = current_index
           /\ ~hist'[Len(hist')].ok
           /\ hist'[Len(hist')].tried = None
           /\ win_filename' = EMPTY_LABEL
           /\ win_image' = win_image]_vars

\* C6 witness: an empty set after the initial load and a "next".
EmptyAbsorbingWitness ==
    /\ pc = "running" /\ images = <<>> /\ Len(hist) = 2
    /\ hist[2].dir = "next" /\ win_filename = EMPTY_LABEL

\* C7: the scanned set is exactly the entries of the scanned directory whose
\* extension is png, jpg or jpeg in any letter case, in listing order.
ExtensionFilter ==
    pc = "constructed" =>
        LET d == split_path(fs, arg_path(arg)).image_dir
        IN  /\ [i \in 1..Len(images) |-> Last(images[i])]
                 = SelectSeq(fs[Resolve(d)], HasImageExtension)
            /\ \A i \in 1..Len(images) : Front(images[i]) = d

\* C7 witness: the listing a.png, b.txt, c.JPG, d.jpeg scanned to
\* a.png, c.JPG, d.jpeg.
ExtensionFilterWitness ==
    /\ pc = "constructed" /\ arg = Some(<<DIR>>)
    /\ fs[CWD \o <<DIR>>] = <<A_PNG, B_TXT, C_JPG, D_JPEG>>
    /\ images = <<(<<DIR, A_PNG>>), (<<DIR, C_JPG>>), (<<DIR, D_JPEG>>)>>

\* C8: a "previous" or "next" on a non-empty set that yields no image keeps
\* the index it moved to, shows the label "empty" and leaves the program
\* running.
DecodeFailureLocal ==
    (images # <<>> /\ hist # <<>> /\ LastCmd.dir \in Navigation /\ ~LastCmd.ok)
    => /\ pc = "running"
       /\ win_filename = EMPTY_LABEL
       /\ LastCmd.tried = Some(current_index)
       /\ current_index =
            IF LastCmd.dir = "previous"
            THEN (IF LastCmd.pre = 0 THEN Len(images) - 1 ELSE LastCmd.pre - 1)
            ELSE (LastCmd.pre + 1) % Len(images)

\* C8 witness: "previous" at index 0 of at least two images, decode failed,
\* index now N-1.
DecodeFailureLocalWitness ==
    /\ pc = "running" /\ Len(images) >= 2 /\ hist # <<>>
    /\ LastCmd.dir = "previous" /\ ~LastCmd.ok /\ LastCmd.pre = 0
    /\ current_index = Len(images) - 1 /\ win_filename = EMPTY_LABEL

\* C9: no command changes images, and on a non-empty set a command that is
\* neither "previous" nor "next" leaves current_index unchanged.
NonDirectionalFrame ==
    [][(Constructed /\ hist' # <<>>)
        => /\ images' = images
           /\ (images # <<>> /\ hist'[Len(hist')].dir \notin Navigation)
                => current_index' = current_index]_vars

\* C9 witness: an unrecognised string sent at a non-zero index of a
\* non-empty set.
NonDirectionalFrameWitness ==
    /\ pc = "running" /\ Len(images) >= 2 /\ hist # <<>>
    /\ LastCmd.dir = "reload" /\ LastCmd.pre = 1 /\ current_index = 1

\* C10: after each command, on success the label is the file name of
\* images[current_index] and the image is the decode of that entry; on
\* failure the label is "empty" and the image is the one shown before.
WindowConsistency ==
    [][(Constructed /\ hist' # <<>>)
        => IF hist'[Len(hist')].ok
           THEN /\ win_filename' = Last(images'[current_index' + 1])
                /\ win_image' = Decoded(images'[current_index' + 1])
           ELSE /\ win_filename' = EMPTY_LABEL
                /\ win_image' = win_image]_vars

\* C10 witness: a successful load followed by a navigation whose decode
\* failed: the label is "empty" while the earlier image is still shown.
WindowConsistencyWitness ==
    /\ pc = "running" /\ Len(hist) = 2 /\ hist[1].ok /\ ~hist[2].ok
    /\ hist[2].dir = "next" /\ win_filename = EMPTY_LABEL
    /\ win_image.decoded /\ win_image.src # images[current_index + 1]

====
